---- MODULE Spec2Model ----
(***************************************************************************)
(* A model of the pipeline helpers: the PostgreSQL query builders          *)
(* (loaders/postgres/queries.py), the database connection helper           *)
(* (connections/postgres.py), the Kaggle file listing                      *)
(* (connections/kaggle.py) and the raw CSV head reader                     *)
(* (extractors/csv_data.py).                                               *)
(*                                                                         *)
(* Python values are records [ty, v]: ty is the Python type's name and v   *)
(* the payload.  A Python str is a sequence of one-character strings, so   *)
(* that identifier quoting can be computed character by character; SQL     *)
(* text that psycopg2 renders is a TLA+ string built with \o.              *)
(***************************************************************************)
EXTENDS Integers, Sequences, FiniteSets, TLC

VARIABLES call, result, composed, environ, connections

vars == <<call, result, composed, environ, connections>>

----------------------------------------------------------------------------
(* Bounds of the model *)

MaxCols == 2
MaxLimit == 11
MaxFiles == 2
MaxLines == 3
MaxRows == 4
MaxConnections == 2

----------------------------------------------------------------------------
(* Python values *)

Range(s) == {s[k] : k \in 1..Len(s)}

SeqsUpTo(S, n) == UNION {[1..k -> S] : k \in 0..n}

RECURSIVE Str(_)
Str(s) == IF s = <<>> THEN "" ELSE Head(s) \o Str(Tail(s))

Digit(d) == <<"0", "1", "2", "3", "4", "5", "6", "7", "8", "9">>[d + 1]

RECURSIVE NatToStr(_)
NatToStr(n) == IF n < 10 THEN Digit(n) ELSE NatToStr(n \div 10) \o Digit(n % 10)

IntToStr(n) == IF n < 0 THEN "-" \o NatToStr(-n) ELSE NatToStr(n)

PyStr(s) == [ty |-> "str", v |-> s]
PyNone == [ty |-> "NoneType", v |-> <<>>]
PyBytes(s) == [ty |-> "bytes", v |-> s]

\* repr of type(x), as the f-strings of the error messages interpolate it
TypeRepr(x) ==
    CASE x.ty = "str" -> "<class 'str'>"
      [] x.ty = "bytes" -> "<class 'bytes'>"
      [] x.ty = "NoneType" -> "<class 'NoneType'>"
      [] x.ty = "int" -> "<class 'int'>"
      [] x.ty = "bool" -> "<class 'bool'>"
      [] x.ty = "float" -> "<class 'float'>"
      [] x.ty = "list" -> "<class 'list'>"
      [] x.ty = "tuple" -> "<class 'tuple'>"
      [] x.ty = "set" -> "<class 'set'>"
      [] x.ty = "Index" -> "<class 'pandas.core.indexes.base.Index'>"
      [] x.ty = "Series" -> "<class 'pandas.core.series.Series'>"

\* isinstance(x, int): bool is a subclass of int
IsInstanceInt(x) == x.ty \in {"int", "bool"}

\* str(x) for the values a limit can hold
PyStrOf(x) ==
    CASE x.ty = "int" -> IntToStr(x.v)
      [] x.ty = "bool" -> (IF x.v = 1 THEN "True" ELSE "False")
      [] x.ty = "str" -> Str(x.v)

\* Results of a call: a returned value or a raised exception
NoValue == [kind |-> "None"]
NoExc == [type |-> "None", template |-> "", fields |-> <<>>]
Pending == [status |-> "pending", value |-> NoValue, exc |-> NoExc]
Return(val) == [status |-> "return", value |-> val, exc |-> NoExc]
Raise(e) == [status |-> "raise", value |-> NoValue, exc |-> e]

\* An exception whose message is an f-string: the literal text with {} for
\* each replacement field, and the interpolated values in order
Exc(type, template, fields) == [type |-> type, template |-> template, fields |-> fields]

----------------------------------------------------------------------------
(* psycopg2.sql, as the builders use it *)

SQL(s) == [kind |-> "SQL", wrapped |-> s]
Identifier(name) == [kind |-> "Identifier", wrapped |-> name]
Placeholder(name) == [kind |-> "Placeholder", wrapped |-> name]
Composed(seq) == [kind |-> "Composed", wrapped |-> seq]

\* sql.SQL(joiner).join(seq)
RECURSIVE JoinSeq(_, _)
JoinSeq(joiner, seq) ==
    IF Len(seq) <= 1 THEN seq
    ELSE <<Head(seq), joiner>> \o JoinSeq(joiner, Tail(seq))

Join(joiner, seq) == Composed(JoinSeq(joiner, seq))

\* sql.SQL(template).format(**kwargs): the template is its parsed pieces,
\* literal text or a named replacement field; empty literals are dropped
Lit(s) == [isField |-> FALSE, text |-> s]
Field(name) == [isField |-> TRUE, text |-> name]

RECURSIVE FormatSeq(_, _)
FormatSeq(template, kwargs) ==
    IF template = <<>> THEN <<>>
    ELSE LET p == Head(template)
             rest == FormatSeq(Tail(template), kwargs)
         IN IF p.isField THEN <<kwargs[p.text]>> \o rest
            ELSE IF p.text = "" THEN rest
            ELSE <<SQL(p.text)>> \o rest

Format(template, kwargs) == Composed(FormatSeq(template, kwargs))

\* Identifier quoting: wrap in double quotes, double each embedded quote
RECURSIVE EscapeQuotes(_)
EscapeQuotes(name) ==
    IF name = <<>> THEN ""
    ELSE (IF Head(name) = "\"" THEN "\"\"" ELSE Head(name)) \o EscapeQuotes(Tail(name))

QuoteIdent(name) == "\"" \o EscapeQuotes(name) \o "\""

\* Composable.as_string
RECURSIVE as_string(_)
as_string(c) ==
    CASE c.kind = "SQL" -> c.wrapped
      [] c.kind = "Identifier" -> QuoteIdent(c.wrapped)
      [] c.kind = "Placeholder" -> "%(" \o Str(c.wrapped) \o ")s"
      [] c.kind = "Composed" ->
            IF c.wrapped = <<>> THEN ""
            ELSE as_string(Head(c.wrapped)) \o as_string(Composed(Tail(c.wrapped)))

----------------------------------------------------------------------------
(* loaders/postgres/queries.py *)

pandas_types == <<"object", "int64", "float64", "bool", "datetime64", "timedelta[ns]", "category">>

postgres_types_swapped == <<"VARCHAR", "FLOAT", "INT", "BOOL", "TIMESTAMP", "INTERVAL", "ARRAY">>

postgres_types == <<"VARCHAR", "INT", "FLOAT", "BOOL", "TIMESTAMP", "INTERVAL", "ARRAY">>

\* tuple.index(x): the 0-based position of the first element equal to x
TupleIndex(t, x) == (CHOOSE k \in 1..Len(t) : t[k] = x /\ \A j \in 1..(k - 1) : t[j] # x) - 1

auto_create_table_args_ok(table, columns, types) ==
    ~(table.ty # "str" \/ columns.ty # "Index" \/ types.ty # "Series")

auto_create_table_args_error(table, columns, types) ==
    Exc("TypeError",
        "Required types: table => python string; columns => pandas Index; types => pandas Series\n\t        Received table: {} columns: {} types: {}.",
        <<TypeRepr(table), TypeRepr(columns), TypeRepr(types)>>)

unsupported_type_error_unnamed(tag) ==
    Exc("TypeError", "That is not a supported pandas type.", <<>>)

unsupported_type_error(tag) ==
    Exc("TypeError", "{} is not a supported pandas type.", <<tag>>)

\* columns[i] past the end of a pandas Index
index_error(i, size) ==
    Exc("IndexError", "index {} is out of bounds for axis 0 with size {}",
        <<IntToStr(i), IntToStr(size)>>)

type_is_supported(tag) == tag \in Range(pandas_types)

\* The for loop over range(0, len(types)); i is the 0-based loop index.
\* Yields the exception that ended the loop (NoExc when it ran to the end)
\* and cols_types as it then stands.
RECURSIVE auto_create_table_loop(_, _, _, _)
auto_create_table_loop(columns, types, i, cols_types) ==
    IF i >= Len(types)
    THEN [exc |-> NoExc, cols_types |-> cols_types]
    ELSE IF type_is_supported(types[i + 1])
         THEN LET col_type == postgres_types[TupleIndex(pandas_types, types[i + 1]) + 1]
              IN IF i >= Len(columns)
                 THEN [exc |-> index_error(i, Len(columns)), cols_types |-> cols_types]
                 ELSE auto_create_table_loop(columns, types, i + 1,
                        Append(cols_types,
                               Composed(<<Identifier(columns[i + 1]), SQL(" "), SQL(col_type)>>)))
         ELSE [exc |-> unsupported_type_error(types[i + 1]), cols_types |-> cols_types]

\* The whole call: what it returns or raises, and the sql objects it had
\* composed when it ended
auto_create_table(table, columns, types) ==
    IF ~auto_create_table_args_ok(table, columns, types)
    THEN [result |-> Raise(auto_create_table_args_error(table, columns, types)),
          composed |-> <<>>]
    ELSE LET loop == auto_create_table_loop(columns.v, types.v, 0, <<>>)
         IN IF loop.exc # NoExc
            THEN [result |-> Raise(loop.exc), composed |-> loop.cols_types]
            ELSE LET query == Format(
                        <<Lit("CREATE TABLE IF NOT EXISTS "), Field("table"), Lit(" ("),
                          Field("columns"), Lit(")")>>,
                        [table |-> Identifier(table.v),
                         columns |-> Join(SQL(", "), loop.cols_types)])
                 IN [result |-> Return(query),
                     composed |-> Append(loop.cols_types, query)]

columns_args_ok_any_table(table, columns) ==
    columns.ty \in {"list", "tuple", "Index"}

columns_args_ok(table, columns) ==
    ~(table.ty # "str" \/ columns.ty \notin {"list", "tuple", "Index"})

columns_args_error(table, columns) ==
    Exc("TypeError",
        "Expected table to be type string and columns of type list, tuple, or pandas Index.\n\t        Received table: {} and columns: {}",
        <<TypeRepr(table), TypeRepr(columns)>>)

\* map(sql.Identifier, columns) and map(sql.Placeholder, columns)
Identifiers(columns) == [k \in 1..Len(columns) |-> Identifier(columns[k])]

Placeholders(columns) == [k \in 1..Len(columns) |-> Placeholder(columns[k])]

Reverse(seq) == [k \in 1..Len(seq) |-> seq[Len(seq) + 1 - k]]

insert_values_reversed(columns) == Join(SQL(", "), Placeholders(Reverse(columns)))

insert_values(columns) == Join(SQL(", "), Placeholders(columns))

query_insert_data(table, columns) ==
    IF ~columns_args_ok(table, columns)
    THEN [result |-> Raise(columns_args_error(table, columns)), composed |-> <<>>]
    ELSE LET query == Format(
                <<Lit("INSERT INTO "), Field("table"), Lit(" ("), Field("columns"),
                  Lit(") VALUES ("), Field("values"), Lit(")")>>,
                [table |-> Identifier(table.v),
                 columns |-> Join(SQL(", "), Identifiers(columns.v)),
                 values |-> insert_values(columns.v)])
         IN [result |-> Return(query), composed |-> <<query>>]

limit_error(limit) ==
    Exc("TypeError", "Variable limit must be an integer. Received limit: {}.",
        <<TypeRepr(limit)>>)

query_get_data(table, columns, limit) ==
    IF ~columns_args_ok(table, columns)
    THEN [result |-> Raise(columns_args_error(table, columns)), composed |-> <<>>]
    ELSE IF limit.ty # "NoneType" /\ ~IsInstanceInt(limit)
    THEN [result |-> Raise(limit_error(limit)), composed |-> <<>>]
    ELSE LET lim == IF limit.ty = "NoneType" THEN PyStr(<<" ", "*", " ">>) ELSE limit
             query == Format(
                <<Lit("SELECT "), Field("columns"), Lit(" FROM "), Field("table"),
                  Lit(" LIMIT "), Field("return_limit")>>,
                [table |-> Identifier(table.v),
                 columns |-> Join(SQL(", "), Identifiers(columns.v)),
                 return_limit |-> SQL(PyStrOf(lim))])
         IN [result |-> Return(query), composed |-> <<query>>]

----------------------------------------------------------------------------
(* The calls the query builders are checked on *)

ColumnNames == {<<"i", "d">>, <<"n", "a", "m", "e">>, <<"a", "\"", "b">>}

TableValues == {PyStr(<<"t">>), PyStr(<<"a", "\"", "b">>), PyNone, PyBytes(<<"t">>)}

\* The seven supported dtype names and two unsupported ones
TypeTags == Range(pandas_types) \cup {"complex128", "datetime64[ns]"}

ColumnsValues == {[ty |-> t, v |-> s] : t \in {"Index", "tuple", "set"}, s \in SeqsUpTo(ColumnNames, MaxCols)}

TypesValues == {[ty |-> t, v |-> s] : t \in {"Series", "tuple"}, s \in SeqsUpTo(TypeTags, MaxCols)}

\* None, ints, bools, a float and a str
LimitValues ==
    {PyNone} \cup {[ty |-> "int", v |-> n] : n \in (-2)..MaxLimit}
             \cup {[ty |-> "bool", v |-> b] : b \in {0, 1}}
             \cup {[ty |-> "float", v |-> 2], PyStr(<<"1", "0">>)}

CreateColumnsValues == {c \in ColumnsValues : c.ty # "set"}

InitQueries ==
    /\ \/ \E t \in TableValues, c \in CreateColumnsValues, y \in TypesValues :
             call = [fn |-> "auto_create_table", table |-> t, columns |-> c, types |-> y]
       \/ \E t \in TableValues, c \in ColumnsValues :
             call = [fn |-> "query_insert_data", table |-> t, columns |-> c]
       \/ \E t \in TableValues, c \in ColumnsValues, l \in LimitValues :
             call = [fn |-> "query_get_data", table |-> t, columns |-> c, limit |-> l]
    /\ result = Pending
    /\ composed = <<>>
    /\ environ = {}
    /\ connections = 0

AutoCreateTable ==
    /\ call.fn = "auto_create_table"
    /\ result = Pending
    /\ LET r == auto_create_table(call.table, call.columns, call.types)
       IN result' = r.result /\ composed' = r.composed
    /\ UNCHANGED <<call, environ, connections>>

QueryInsertData ==
    /\ call.fn = "query_insert_data"
    /\ result = Pending
    /\ LET r == query_insert_data(call.table, call.columns)
       IN result' = r.result /\ composed' = r.composed
    /\ UNCHANGED <<call, environ, connections>>

QueryGetData ==
    /\ call.fn = "query_get_data"
    /\ result = Pending
    /\ LET r == query_get_data(call.table, call.columns, call.limit)
       IN result' = r.result /\ composed' = r.composed
    /\ UNCHANGED <<call, environ, connections>>

NextQueries == AutoCreateTable \/ QueryInsertData \/ QueryGetData

SpecQueries == InitQueries /\ [][NextQueries]_vars

----------------------------------------------------------------------------
(* connections/postgres.py *)

EnvKeys == <<"HOST", "DB", "USER", "PASS">>

load_credentials(env, file_keys) == env \cup file_keys

\* environ['HOST'], environ['DB'], ...: the first key that is missing, if any
MissingKeys(env) == {k \in 1..Len(EnvKeys) : EnvKeys[k] \notin env}

FirstMissingKey(env) == EnvKeys[CHOOSE k \in MissingKeys(env) : \A j \in MissingKeys(env) : k <= j]

Connection(id) == [ty |-> "connection", v |-> id]
Cursor(conn) == [ty |-> "cursor", v |-> conn.v]
PyBool(b) == [ty |-> "bool", v |-> IF b THEN 1 ELSE 0]

IterableTypes == {"list", "tuple", "str", "set"}

ObjectName(x) == IF x.ty = "connection" THEN "psycopg2.extensions.connection" ELSE x.ty

\* The builtin tuple(*args): at most one argument, which must be iterable
py_tuple(args) ==
    IF Len(args) > 1
    THEN Raise(Exc("TypeError", "tuple expected at most 1 argument, got {}",
                   <<IntToStr(Len(args))>>))
    ELSE IF args = <<>> THEN Return(<<>>)
    ELSE IF args[1].ty \in IterableTypes THEN Return(args[1].v)
    ELSE Raise(Exc("TypeError", "'{}' object is not iterable", <<ObjectName(args[1])>>))

\* The return statements, lines 55-58, with conn as it stands after the
\* first if
connect_to_database_return(conn, cursor) ==
    IF cursor
    THEN IF conn.ty = "connection"
         THEN py_tuple(<<conn, Cursor(conn)>>)
         ELSE Raise(Exc("AttributeError", "'{}' object has no attribute 'cursor'",
                        <<ObjectName(conn)>>))
    ELSE py_tuple(<<conn>>)

InitPostgres ==
    /\ call = [fn |-> "none"]
    /\ result = Pending
    /\ composed = <<>>
    /\ environ = {}
    /\ connections = 0

LoadCredentials ==
    \E file_keys \in SUBSET Range(EnvKeys) :
        /\ environ' = load_credentials(environ, file_keys)
        /\ call' = [fn |-> "load_credentials", keys |-> file_keys]
        /\ result' = Return("Successfully loaded environment variables.")
        /\ UNCHANGED <<composed, connections>>

\* conn is True and a credential is missing: environ[...] raises KeyError
ConnectMissingCredential ==
    \E cursor \in BOOLEAN :
        /\ MissingKeys(environ) # {}
        /\ call' = [fn |-> "connect_to_database", conn |-> TRUE, cursor |-> cursor]
        /\ result' = Raise(Exc("KeyError", "{}", <<FirstMissingKey(environ)>>))
        /\ UNCHANGED <<composed, environ, connections>>

\* conn is True and psycopg2.connect refuses the connection
ConnectRefused ==
    \E cursor \in BOOLEAN :
        /\ MissingKeys(environ) = {}
        /\ call' = [fn |-> "connect_to_database", conn |-> TRUE, cursor |-> cursor]
        /\ result' = Raise(Exc("OperationalError", "", <<>>))
        /\ UNCHANGED <<composed, environ, connections>>

\* conn is True and psycopg2.connect opens a connection
ConnectOpened ==
    \E cursor \in BOOLEAN :
        /\ MissingKeys(environ) = {}
        /\ connections < MaxConnections
        /\ connections' = connections + 1
        /\ call' = [fn |-> "connect_to_database", conn |-> TRUE, cursor |-> cursor]
        /\ result' = connect_to_database_return(Connection(connections + 1), cursor)
        /\ UNCHANGED <<composed, environ>>

\* conn is not True: no connection is opened and conn stays the flag
ConnectNotRequested ==
    \E cursor \in BOOLEAN :
        /\ call' = [fn |-> "connect_to_database", conn |-> FALSE, cursor |-> cursor]
        /\ result' = connect_to_database_return(PyBool(FALSE), cursor)
        /\ UNCHANGED <<composed, environ, connections>>

ConnectToDatabase ==
    ConnectMissingCredential \/ ConnectRefused \/ ConnectOpened \/ ConnectNotRequested

NextPostgres == LoadCredentials \/ ConnectToDatabase

SpecPostgres == InitPostgres /\ [][NextPostgres]_vars

----------------------------------------------------------------------------
(* connections/kaggle.py *)

FileNames == {"train.csv", "test.csv"}
FileTypes == {".csv", ".json"}
FileSizes == {10, 20}

DataFiles ==
    [nameNullable : FileNames, fileTypeNullable : FileTypes, totalBytes : FileSizes]

EmptyDict == [k \in {} |-> NoValue]

\* d[key] = val
DictSet(d, key, val) == [k \in DOMAIN d \cup {key} |-> IF k = key THEN val ELSE d[k]]

file_key(data_file) == "nameNullable"

\* The for loop over response_dict['datasetFiles']
RECURSIVE get_file_information_loop(_, _)
get_file_information_loop(files, file_info_dict) ==
    IF files = <<>> THEN file_info_dict
    ELSE LET data_file == Head(files)
         IN get_file_information_loop(Tail(files),
                DictSet(file_info_dict, file_key(data_file),
                        <<data_file["fileTypeNullable"], data_file["totalBytes"]>>))

get_file_information(response_dict) ==
    get_file_information_loop(response_dict["datasetFiles"], EmptyDict)

InitKaggle ==
    /\ call \in {[fn |-> "get_file_information", response_dict |-> [datasetFiles |-> f]] :
                    f \in SeqsUpTo(DataFiles, MaxFiles)}
    /\ result = Pending
    /\ composed = <<>>
    /\ environ = {}
    /\ connections = 0

GetFileInformation ==
    /\ call.fn = "get_file_information"
    /\ result = Pending
    /\ result' = Return(get_file_information(call.response_dict))
    /\ UNCHANGED <<call, composed, environ, connections>>

NextKaggle == GetFileInformation

SpecKaggle == InitKaggle /\ [][NextKaggle]_vars

----------------------------------------------------------------------------
(* extractors/csv_data.py *)

FileLines == {"row1\n", "row2\n", "row3\n"}

loop_breaks_late(i, rows) == i > rows

\* if i == rows: break
loop_breaks(i, rows) == i = rows

\* for i, line in enumerate(f); i is the 0-based index of the next line
RECURSIVE get_raw_document_head_loop(_, _, _, _)
get_raw_document_head_loop(f, rows, i, head) ==
    IF i >= Len(f) THEN head
    ELSE IF loop_breaks(i, rows) THEN head
    ELSE get_raw_document_head_loop(f, rows, i + 1, Append(head, f[i + 1]))

get_raw_document_head(f, rows) == get_raw_document_head_loop(f, rows, 0, <<>>)

InitCsv ==
    /\ call \in {[fn |-> "get_raw_document_head", file |-> f, rows |-> r] :
                    f \in SeqsUpTo(FileLines, MaxLines), r \in (-1)..MaxRows}
    /\ result = Pending
    /\ composed = <<>>
    /\ environ = {}
    /\ connections = 0

GetRawDocumentHead ==
    /\ call.fn = "get_raw_document_head"
    /\ result = Pending
    /\ result' = Return(get_raw_document_head(call.file, call.rows))
    /\ UNCHANGED <<call, composed, environ, connections>>

NextCsv == GetRawDocumentHead

SpecCsv == InitCsv /\ [][NextCsv]_vars

----------------------------------------------------------------------------
(* Properties of the query builders, checked under SpecQueries *)

Called(fn) == call.fn = fn /\ result # Pending

\* The type vocabulary as a lookup table from dtype name to SQL keyword
KeywordOf(tag) ==
    CASE tag = "object" -> "VARCHAR"
      [] tag = "int64" -> "INT"
      [] tag = "float64" -> "FLOAT"
      [] tag = "bool" -> "BOOL"
      [] tag = "datetime64" -> "TIMESTAMP"
      [] tag = "timedelta[ns]" -> "INTERVAL"
      [] tag = "category" -> "ARRAY"

Vocabulary ==
    {"object", "int64", "float64", "bool", "datetime64", "timedelta[ns]", "category"}

\* "<col1> <TYPE1>, <col2> <TYPE2>, ..." with quoted column names
RECURSIVE ColumnDefs(_, _)
ColumnDefs(cols, tags) ==
    IF cols = <<>> THEN ""
    ELSE QuoteIdent(Head(cols)) \o " " \o KeywordOf(Head(tags))
         \o (IF Len(cols) > 1 THEN ", " ELSE "") \o ColumnDefs(Tail(cols), Tail(tags))

\* "<x1>, <x2>, ..." for a sequence of strings
RECURSIVE CommaList(_)
CommaList(strs) ==
    IF strs = <<>> THEN ""
    ELSE Head(strs) \o (IF Len(strs) > 1 THEN ", " ELSE "") \o CommaList(Tail(strs))

QuotedList(cols) == CommaList([k \in 1..Len(cols) |-> QuoteIdent(cols[k])])

PlaceholderList(cols) == CommaList([k \in 1..Len(cols) |-> "%(" \o Str(cols[k]) \o ")s"])

\* A call of auto_create_table with a string table, a pandas Index of
\* columns and a pandas Series of as many type tags
CreateCallIsWellFormed ==
    /\ Called("auto_create_table")
    /\ call.table.ty = "str"
    /\ call.columns.ty = "Index"
    /\ call.types.ty = "Series"
    /\ Len(call.columns.v) = Len(call.types.v)

BadTagPositions == {k \in 1..Len(call.types.v) : call.types.v[k] \notin Vocabulary}

FirstBadTagPosition == CHOOSE k \in BadTagPositions : \A j \in BadTagPositions : k <= j

NamesOf(c, kind) ==
    LET parts == SelectSeq(c.wrapped, LAMBDA x : x.kind = kind)
    IN [k \in 1..Len(parts) |-> parts[k].wrapped]

\* Every part that is not of the given kind is the separator ", "
OnlySeparatedBy(c, kind) ==
    \A k \in 1..Len(c.wrapped) : c.wrapped[k].kind # kind => c.wrapped[k] = SQL(", ")

InsertCallIsValid ==
    /\ Called("query_insert_data")
    /\ call.table.ty = "str"
    /\ call.columns.ty \in {"list", "tuple", "Index"}

\* C3: for a string table and a sequence of column names, query_insert_data
\* returns INSERT INTO <table> (<col1>, ...) VALUES (<ph1>, ...) with exactly
\* one placeholder per column, the i-th placeholder named after the i-th
\* column.
C3_InsertPlaceholders ==
    InsertCallIsValid =>
        /\ result.status = "return"
        /\ LET q == result.value.wrapped
           IN /\ Len(q) = 7
              /\ q[1] = SQL("INSERT INTO ")
              /\ q[2] = Identifier(call.table.v)
              /\ q[3] = SQL(" (")
              /\ q[5] = SQL(") VALUES (")
              /\ q[7] = SQL(")")
              /\ NamesOf(q[4], "Identifier") = call.columns.v
              /\ OnlySeparatedBy(q[4], "Identifier")
              /\ NamesOf(q[6], "Placeholder") = call.columns.v
              /\ OnlySeparatedBy(q[6], "Placeholder")
        /\ as_string(result.value) =
              "INSERT INTO " \o QuoteIdent(call.table.v) \o " ("
              \o QuotedList(call.columns.v) \o ") VALUES ("
              \o PlaceholderList(call.columns.v) \o ")"

C3_Witness ==
    /\ InsertCallIsValid
    /\ call.columns.v = <<(<<"a", "\"", "b">>), (<<"i", "d">>)>>
    /\ result.status = "return"
    /\ as_string(result.value) =
          "INSERT INTO \"t\" (\"a\"\"b\", \"id\") VALUES (%(a\"b)s, %(id)s)"

GetCallIsValid ==
    /\ Called("query_get_data")
    /\ call.table.ty = "str"
    /\ call.columns.ty \in {"list", "tuple", "Index"}

SelectFrom == "SELECT " \o QuotedList(call.columns.v) \o " FROM " \o QuoteIdent(call.table.v)

\* C4: for a valid table and columns, query_get_data with limit=None returns
\* a statement with no LIMIT clause (it ends after FROM <table>), and with a
\* non-negative integer limit n the same statement suffixed with LIMIT n.
C4_NoLimitClauseForNone ==
    GetCallIsValid =>
        /\ call.limit.ty = "NoneType" =>
              /\ result.status = "return"
              /\ as_string(result.value) = SelectFrom
        /\ (call.limit.ty = "int" /\ call.limit.v >= 0) =>
              /\ result.status = "return"
              /\ as_string(result.value) = SelectFrom \o " LIMIT " \o IntToStr(call.limit.v)

LimitIsNonNegativeInt == call.limit.ty = "int" /\ call.limit.v >= 0

\* C5: query_get_data fails with an invalid-argument error, returning no
\* statement, for every supplied limit that is not a non-negative integer
\* (negative integers, booleans, non-integers other than None), so a
\* returned statement only carries a non-negative integer as LIMIT operand.
C5_LimitMustBeNonNegativeInt ==
    GetCallIsValid =>
        /\ (call.limit.ty # "NoneType" /\ ~LimitIsNonNegativeInt) =>
              /\ result.status = "raise"
              /\ result.exc.type = "TypeError"
              /\ result.value = NoValue
        /\ (result.status = "return" /\ Len(result.value.wrapped) = 6) =>
              /\ LimitIsNonNegativeInt
              /\ result.value.wrapped[6] = SQL(IntToStr(call.limit.v))

\* C6: each of auto_create_table, query_insert_data and query_get_data,
\* called with a table that is not a string, fails with a TypeError whatever
\* the other arguments are, before any part of the statement is composed,
\* and returns nothing.
C6_NonStringTableFails ==
    (/\ call.fn \in {"auto_create_table", "query_insert_data", "query_get_data"}
     /\ result # Pending
     /\ call.table.ty # "str") =>
        /\ result.status = "raise"
        /\ result.exc.type = "TypeError"
        /\ result.exc.fields[1] = TypeRepr(call.table)
        /\ result.value = NoValue
        /\ composed = <<>>

C6_Witness ==
    /\ Called("query_get_data")
    /\ call.table = PyNone
    /\ call.columns.ty = "tuple"
    /\ Len(call.columns.v) = 2
    /\ call.limit = [ty |-> "int", v |-> 10]
    /\ result.status = "raise"

----------------------------------------------------------------------------
(* Properties of connect_to_database, checked under SpecPostgres *)

\* C7: connect_to_database returns a tuple of exactly the requested assets:
\* (conn, cursor) with the connection at index 0, (conn) or (cursor); the
\* call returns normally and the cursor comes from an opened connection.
\* Stated for the calls in which the credentials are present and the
\* database accepts the connection.
C7_ReturnsRequestedAssets ==
    (/\ call.fn = "connect_to_database"
     /\ call.conn \/ call.cursor
     /\ result.exc.type \notin {"KeyError", "OperationalError"}) =>
        /\ result.status = "return"
        /\ Len(result.value) = (IF call.conn THEN 1 ELSE 0) + (IF call.cursor THEN 1 ELSE 0)
        /\ call.conn => result.value[1].ty = "connection"
        /\ call.cursor =>
              /\ result.value[Len(result.value)].ty = "cursor"
              /\ result.value[Len(result.value)].v \in 1..connections

----------------------------------------------------------------------------
(* Properties of get_file_information, checked under SpecKaggle *)

\* C8: get_file_information returns a dictionary with one entry per file,
\* keyed by the file's name and holding [file type, file size] of that file;
\* k distinctly named files yield k entries.
C8_OneEntryPerFile ==
    LET files == call.response_dict["datasetFiles"]
        names == {files[k]["nameNullable"] : k \in 1..Len(files)}
    IN (Called("get_file_information") /\ Cardinality(names) = Len(files)) =>
          /\ result.status = "return"
          /\ DOMAIN result.value = names
          /\ \A k \in 1..Len(files) :
                result.value[files[k]["nameNullable"]] =
                   <<files[k]["fileTypeNullable"], files[k]["totalBytes"]>>

----------------------------------------------------------------------------
(* Properties of get_raw_document_head, checked under SpecCsv *)

Min(a, b) == IF a <= b THEN a ELSE b

\* C9: for a file of N lines and a non-negative rows, get_raw_document_head
\* returns exactly the first min(rows, N) lines, unaltered and in file
\* order; never more than rows lines, and the empty list when rows is 0.
C9_HeadIsFirstRows ==
    (Called("get_raw_document_head") /\ call.rows >= 0) =>
        /\ result.status = "return"
        /\ result.value = SubSeq(call.file, 1, Min(call.rows, Len(call.file)))
        /\ Len(result.value) <= call.rows
        /\ call.rows = 0 => result.value = <<>>

C9_Witness ==
    /\ Called("get_raw_document_head")
    /\ Len(call.file) = 3
    /\ call.rows = 2
    /\ result.status = "return"
    /\ result.value = <<call.file[1], call.file[2]>>

====
